---- MODULE Spec2Model ----
(***************************************************************************)
(* Model of the /predict pipeline of the solar-panel API (app/main.py)     *)
(* together with the SolarField operations it races with                   *)
(* (app/routers/fields.py).                                                *)
(*                                                                         *)
(* Shared state: the SolarField and PanelImage tables, the temporary       *)
(* upload files in the working directory, the classified_images tree and   *)
(* the wall clock.  Every /predict request is a process whose position in  *)
(* the handler is pc[r]; one action is one statement (or one run of        *)
(* statements that touch no shared state) of the handler.  The handler's   *)
(* single except clause is local, so a step that raises performs it too.   *)
(* A call that can fail for reasons outside the model (disk, detector,     *)
(* database) has a branch that raises.  When the handler has answered its  *)
(* locals are gone; loc keeps only the exception it caught.                *)
(*                                                                         *)
(* Spec runs NumReq requests concurrently, as several server workers do;   *)
(* SpecOne runs one request over every upload and detector answer.  Both   *)
(* start a request at the body of predict, its caller authenticated.       *)
(* SpecCrud runs one upload against the routers of fields and panel        *)
(* images; SpecAuth starts the request at its bearer token, while accounts *)
(* change and the classified images of the fields are listed.              *)
(***************************************************************************)
EXTENDS Integers, Sequences, FiniteSets, TLC

\* ------------------------------------------------------------------ bounds
NumReq == 2      \* /predict requests in flight
MaxDet == 2      \* boxes the detector returns for one image
MaxDay == 1      \* midnights that pass during a run
MaxFields == 1   \* SolarField rows ever created
MaxImages == 2   \* PanelImage rows created through the panel_images router

Reqs == 1..NumReq

\* ------------------------------------------------------------------ inputs
\* Content types are token sequences so that startswith("image/") is computed.
ContentTypes == { <<"image", "/", "png">>, <<"text", "/", "plain">>, <<"imagex">> }
Filenames == {"a.png", "b.png"}
UserIds == {1, 2}
FieldIds == {1, 2}
\* results.names of the detector: class id -> label
Names == <<"Clean", "Dusty", "dusty">>
Detections == UNION { [1..n -> 1..Len(Names)] : n \in 0..MaxDet }
\* the sizes of the uploaded pictures: small, landscape and portrait
Shapes == { [width |-> 640, height |-> 480],
            [width |-> 1600, height |-> 1200],
            [width |-> 600, height |-> 1200] }

\* ------------------------------------------------------------------ state
VARIABLES
  fields,        \* SolarField table: id -> [user_id]
  next_field_id, \* SolarField primary-key sequence
  images,        \* PanelImage table: id -> [path, field_id, image_class]
  next_image_id, \* PanelImage primary-key sequence
  temp_files,    \* working directory: temp path -> bytes
  dirs,          \* directories under classified_images
  artifacts,     \* classified_images tree: path -> image
  clock,         \* days elapsed since Epoch (datetime.now())
  pc,            \* position of each request in predict
  req,           \* the request's parameters (image, user_id, field_id)
  loc,           \* the handler's local variables
  stages,        \* the pipeline stages each request has completed, in order
  resp,          \* the response delivered to the caller
  users,         \* User table: id -> [username, is_active]
  token,         \* the bearer token each request presented
  listing        \* the last answer of get_classified_images

vars == <<fields, next_field_id, images, next_image_id, temp_files, dirs,
          artifacts, clock, pc, req, loc, stages, resp, users, token, listing>>

db == <<fields, next_field_id, images, next_image_id, users>>
fs == <<temp_files, dirs, artifacts>>

\* ------------------------------------------------------------------ helpers
startswith(s, prefix) ==
  /\ Len(s) >= Len(prefix)
  /\ SubSeq(s, 1, Len(prefix)) = prefix

\* the label taken as it is
lower_skipped(label) == label

\* str.lower() on the labels of the vocabulary
lower(label) ==
  CASE label = "Clean" -> "clean"
    [] label = "Dusty" -> "dusty"
    [] OTHER -> label

Epoch == [year |-> 2024, month |-> 12, day |-> 30]

\* datetime.now(): the calendar date `clock` days after Epoch
now ==
  LET d == Epoch.day + clock
  IN  IF d <= 31
        THEN [year |-> Epoch.year, month |-> Epoch.month, day |-> d]
        ELSE [year |-> Epoch.year + 1, month |-> 1, day |-> d - 31]

Range(s) == { s[i] : i \in DOMAIN s }

\* the orders in which a set can be iterated
Orders(S) ==
  { s \in [1..Cardinality(S) -> S] : Range(s) = S }

RECURSIVE join(_)
\* ",".join(seq)
join(seq) ==
  IF seq = <<>> THEN <<>>
  ELSE IF Len(seq) = 1 THEN <<seq[1]>>
  ELSE <<seq[1], ",">> \o join(Tail(seq))

\* the exception classes the handler can meet
HTTPException(status_code, detail) ==
  [cls |-> "HTTPException", status_code |-> status_code, detail |-> detail]
Error(cls) == [cls |-> cls, status_code |-> 0, detail |-> <<cls>>]
NoException == [cls |-> "None", status_code |-> 0, detail |-> <<>>]

\* str(e): HTTPException prints as "{status_code}: {detail}"
str(e) ==
  IF e.cls = "HTTPException" THEN <<e.status_code, ": ">> \o e.detail
  ELSE e.detail

Empty == [x \in {} |-> 0]

\* f with key k bound to v / with key k removed
Put(f, k, v) == [x \in DOMAIN f \cup {k} |-> IF x = k THEN v ELSE f[x]]
Drop(f, k) == [x \in DOMAIN f \ {k} |-> f[x]]

NoImage == [src |-> 0, boxes |-> <<>>]

\* a pixel buffer is known by its shape
NoBuffer == [width |-> 0, height |-> 0]

NoLoc ==
  [temp_image_path |-> <<>>, cv2_image |-> NoBuffer, source |-> NoBuffer,
   results |-> <<>>, pil_image |-> NoImage,
   predicted_classes |-> {}, predictions_list |-> <<>>,
   classified_image_path |-> <<>>, image_class |-> <<>>,
   panel_image_id |-> 0, e |-> NoException]

NoReq == [content_type |-> <<>>, filename |-> "", user_id |-> 0, field_id |-> 0]

NoResp == [status_code |-> 0, detail |-> <<>>, predictions |-> <<>>,
           classified_image_path |-> <<>>]

\* the accounts: create_all (main.py:37) creates the missing tables only, so
\* the User rows registered before the server started are there
Usernames == <<"alice", "bob">>
Registered ==
  [id \in UserIds |-> [username |-> Usernames[id], is_active |-> TRUE]]

\* a bearer token: its payload's subject and whether jwt.decode accepts it
NoToken == [sub |-> "", valid |-> FALSE, presented |-> FALSE]
Tokens ==
  [sub : Range(Usernames), valid : BOOLEAN, presented : {TRUE}]

NoListing == [status_code |-> 0, images |-> {}, current_user |-> 0,
              solar_field_id |-> 0, user_id |-> 0, serial |-> 0]

Init ==
  /\ fields = Empty
  /\ next_field_id = 1
  /\ images = Empty
  /\ next_image_id = 1
  /\ temp_files = Empty
  /\ dirs = {}
  /\ artifacts = Empty
  /\ clock = 0
  /\ pc = [r \in Reqs |-> "idle"]
  /\ req = [r \in Reqs |-> NoReq]
  /\ loc = [r \in Reqs |-> NoLoc]
  /\ stages = [r \in Reqs |-> <<>>]
  /\ resp = [r \in Reqs |-> NoResp]
  /\ users = Registered
  /\ token = [r \in Reqs |-> NoToken]
  /\ listing = NoListing

\* ------------------------------------------------------------------ predict
\* the caller is told a fixed text instead of str(e)
except_generic_detail(r, e) ==
  /\ pc' = [pc EXCEPT ![r] = "done"]
  /\ loc' = [loc EXCEPT ![r] = [NoLoc EXCEPT !.e = e]]
  /\ resp' = [resp EXCEPT ![r] = [NoResp EXCEPT !.status_code = 500,
                                                !.detail = <<"Internal Server Error">>]]

\* main.py:235-237: log, then answer 500 with str(e), whatever e is
except(r, e) ==
  /\ pc' = [pc EXCEPT ![r] = "done"]
  /\ loc' = [loc EXCEPT ![r] = [NoLoc EXCEPT !.e = e]]  \* the frame is gone
  /\ resp' = [resp EXCEPT ![r] = [NoResp EXCEPT !.status_code = 500,
                                                !.detail = str(e)]]

\* the validation moved below the temporary write
predict_validate_after_write(r, content_type, filename, user_id, field_id) ==
  /\ pc[r] = "idle"
  /\ \A q \in Reqs : q < r => pc[q] # "idle"
  /\ req' = [req EXCEPT ![r] = [content_type |-> content_type,
                                filename |-> filename,
                                user_id |-> user_id,
                                field_id |-> field_id]]
  /\ temp_files' = Put(temp_files, <<"temp_", filename>>, r)
  /\ IF ~startswith(content_type, <<"image", "/">>)
       THEN /\ except(r, HTTPException(400, <<"Uploaded file is not an image.">>))
            /\ UNCHANGED stages
       ELSE /\ pc' = [pc EXCEPT ![r] = "detect"]
            /\ loc' = [loc EXCEPT ![r].temp_image_path = <<"temp_", filename>>]
            /\ stages' = [stages EXCEPT ![r] = <<"Received">>]
            /\ UNCHANGED resp
  /\ UNCHANGED <<db, dirs, artifacts, clock, token, listing>>

\* main.py:97-117: the request arrives; the content type is validated
predict_validate(r, content_type, filename, user_id, field_id) ==
  /\ pc[r] = "idle"
  /\ \A q \in Reqs : q < r => pc[q] # "idle"   \* numbered as they arrive
  /\ req' = [req EXCEPT ![r] = [content_type |-> content_type,
                                filename |-> filename,
                                user_id |-> user_id,
                                field_id |-> field_id]]
  /\ IF ~startswith(content_type, <<"image", "/">>)
       THEN /\ except(r, HTTPException(400, <<"Uploaded file is not an image.">>))
            /\ UNCHANGED stages
       ELSE /\ pc' = [pc EXCEPT ![r] = "write_temp"]
            /\ loc' = [loc EXCEPT ![r].temp_image_path = <<"temp_", filename>>]
            /\ stages' = [stages EXCEPT ![r] = <<"Received">>]
            /\ UNCHANGED resp
  /\ UNCHANGED <<db, fs, clock, token, listing>>

\* main.py:118-119: open(temp_image_path, "wb") and write the upload
predict_write_temp(r) ==
  /\ pc[r] = "write_temp"
  /\ \/ /\ temp_files' = Put(temp_files, loc[r].temp_image_path, r)
        /\ pc' = [pc EXCEPT ![r] = "detect"]
        /\ UNCHANGED <<loc, resp>>
     \/ /\ except(r, Error("OSError"))
        /\ UNCHANGED temp_files
  /\ UNCHANGED <<db, dirs, artifacts, clock, req, stages, token, listing>>

\* a detector failure is swallowed and the image treated as free of boxes
predict_detect_swallowed(r, shape, boxes) ==
  /\ pc[r] = "detect"
  /\ \/ /\ loc' = [loc EXCEPT ![r].cv2_image = shape,
                              ![r].source = shape,
                              ![r].results = boxes]
        /\ stages' = [stages EXCEPT ![r] = @ \o <<"Decoded", "Detected">>]
     \/ /\ loc' = [loc EXCEPT ![r].results = <<>>]
        /\ UNCHANGED stages
  /\ pc' = [pc EXCEPT ![r] = "annotate"]
  /\ UNCHANGED <<resp, db, fs, clock, req, token, listing>>

\* main.py:122-125: cv2.imread gives the upload's pixels, which are handed to
\* model.predict(cv2_image, conf=0.7, iou=0.5) as they are
predict_detect(r, shape, boxes) ==
  /\ pc[r] = "detect"
  /\ \/ /\ loc' = [loc EXCEPT ![r].cv2_image = shape,
                              ![r].source = shape,
                              ![r].results = boxes]
        /\ pc' = [pc EXCEPT ![r] = "annotate"]
        /\ stages' = [stages EXCEPT ![r] = @ \o <<"Decoded", "Detected">>]
        /\ UNCHANGED resp
     \/ /\ except(r, Error("InferenceError"))
        /\ UNCHANGED stages
  /\ UNCHANGED <<db, fs, clock, req, token, listing>>

RECURSIVE boxes_loop(_, _, _)
\* main.py:147-198: the loop over results.boxes
boxes_loop(boxes, predicted_classes, predictions_list) ==
  IF boxes = <<>>
    THEN [predicted_classes |-> predicted_classes,
          predictions_list |-> predictions_list]
    ELSE LET label == Names[Head(boxes)]
         IN  boxes_loop(Tail(boxes),
                        predicted_classes \cup {lower(label)},
                        Append(predictions_list, [class |-> label]))

\* main.py:128-198: Image.open(temp_image_path), draw and aggregate
predict_annotate(r) ==
  /\ pc[r] = "annotate"
  /\ IF loc[r].temp_image_path \notin DOMAIN temp_files
       THEN /\ except(r, Error("FileNotFoundError"))
            /\ UNCHANGED stages
       ELSE LET out == boxes_loop(loc[r].results, {}, <<>>)
            IN  /\ loc' = [loc EXCEPT
                     ![r].pil_image = [src |-> temp_files[loc[r].temp_image_path],
                                       boxes |-> loc[r].results],
                     ![r].predicted_classes = out.predicted_classes,
                     ![r].predictions_list = out.predictions_list]
                /\ pc' = [pc EXCEPT ![r] = "save"]
                /\ stages' = [stages EXCEPT ![r] = @ \o <<"Annotated", "Aggregated">>]
                /\ UNCHANGED resp
  /\ UNCHANGED <<db, fs, clock, req, token, listing>>

\* a partition by month instead of by day
directory_by_month(user_id) ==
  <<"classified_images", now.year, now.month, 1, user_id>>

\* main.py:87-88: the partition directory of today and user_id
directory(user_id) ==
  <<"classified_images", now.year, now.month, now.day, user_id>>

\* main.py:92: os.path.join(directory, filename)
full_path(user_id, filename) == Append(directory(user_id), filename)

\* main.py:84-94: the call returns full_path(user_id, filename)
save_classified_image(image, user_id, filename) ==
  /\ dirs' = dirs \cup {directory(user_id)}               \* exist_ok=True
  /\ artifacts' = Put(artifacts, full_path(user_id, filename), image)

\* main.py:200-204
predict_save(r) ==
  /\ pc[r] = "save"
  /\ LET filename == <<"classified_", req[r].filename>>
         path == full_path(req[r].user_id, filename)
     IN  /\ \/ /\ save_classified_image(loc[r].pil_image, req[r].user_id, filename)
               /\ loc' = [loc EXCEPT ![r].classified_image_path = path]
               /\ pc' = [pc EXCEPT ![r] = "check"]
               /\ stages' = [stages EXCEPT ![r] = Append(@, "Stored")]
               /\ UNCHANGED resp
            \/ /\ except(r, Error("OSError"))           \* image.save raises
               /\ dirs' = dirs \cup {directory(req[r].user_id)}
               /\ \/ UNCHANGED artifacts
                  \/ artifacts' = Put(artifacts, path, NoImage)
               /\ UNCHANGED stages
  /\ UNCHANGED <<db, temp_files, clock, req, token, listing>>

\* main.py:206-212: session.get(SolarField, field_id)
predict_check_field(r) ==
  /\ pc[r] = "check"
  /\ IF req[r].field_id \notin DOMAIN fields
       THEN /\ except(r, HTTPException(404,
                 <<"SolarField with ID ", req[r].field_id, " not found">>))
            /\ UNCHANGED stages
       ELSE /\ pc' = [pc EXCEPT ![r] = "commit"]
            /\ stages' = [stages EXCEPT ![r] = Append(@, "FieldChecked")]
            /\ UNCHANGED <<loc, resp>>
  /\ UNCHANGED <<db, fs, clock, req, token, listing>>

\* one PanelImage row per detected box instead of one per image
predict_commit_per_box(r) ==
  /\ pc[r] = "commit"
  /\ req[r].field_id \in DOMAIN fields
  /\ LET n == Len(loc[r].results)
         image_class == join(<<>>)
     IN  /\ images' = [i \in DOMAIN images \cup (next_image_id..(next_image_id + n - 1)) |->
                         IF i \in DOMAIN images THEN images[i]
                         ELSE [path |-> loc[r].classified_image_path,
                               field_id |-> req[r].field_id,
                               image_class |-> image_class]]
         /\ next_image_id' = next_image_id + n
         /\ loc' = [loc EXCEPT ![r].image_class = image_class,
                               ![r].panel_image_id = next_image_id]
  /\ pc' = [pc EXCEPT ![r] = "cleanup"]
  /\ stages' = [stages EXCEPT ![r] = Append(@, "Recorded")]
  /\ UNCHANGED <<users, resp, fields, next_field_id, fs, clock, req, token, listing>>

\* the insert goes through although the row it refers to is gone
predict_commit_unchecked(r) ==
  /\ pc[r] = "commit"
  /\ \/ /\ \E order \in Orders(loc[r].predicted_classes) :
             LET image_class == join(order)
             IN  /\ images' = Put(images, next_image_id,
                                  [path |-> loc[r].classified_image_path,
                                   field_id |-> req[r].field_id,
                                   image_class |-> image_class])
                 /\ loc' = [loc EXCEPT ![r].image_class = image_class,
                                       ![r].panel_image_id = next_image_id]
        /\ next_image_id' = next_image_id + 1
        /\ pc' = [pc EXCEPT ![r] = "cleanup"]
        /\ stages' = [stages EXCEPT ![r] = Append(@, "Recorded")]
        /\ UNCHANGED resp
     \/ /\ except(r, Error("OperationalError"))
        /\ UNCHANGED <<images, next_image_id, stages>>
  /\ UNCHANGED <<users, fields, next_field_id, fs, clock, req, token, listing>>

\* main.py:214-222: build the PanelImage row, session.add, session.commit.
\* panelimage.field_id is a foreign key to solarfield.id (models.py:31), so
\* the insert of a row whose field was deleted since the check is refused.
predict_commit(r) ==
  /\ pc[r] = "commit"
  /\ \/ /\ req[r].field_id \in DOMAIN fields
        /\ \E order \in Orders(loc[r].predicted_classes) :
             LET image_class == join(order)
             IN  /\ images' = Put(images, next_image_id,
                                  [path |-> loc[r].classified_image_path,
                                   field_id |-> req[r].field_id,
                                   image_class |-> image_class])
                 /\ loc' = [loc EXCEPT ![r].image_class = image_class,
                                       ![r].panel_image_id = next_image_id]
        /\ next_image_id' = next_image_id + 1
        /\ pc' = [pc EXCEPT ![r] = "cleanup"]
        /\ stages' = [stages EXCEPT ![r] = Append(@, "Recorded")]
        /\ UNCHANGED resp
     \/ /\ req[r].field_id \notin DOMAIN fields      \* foreign key violated
        /\ except(r, Error("IntegrityError"))
        /\ UNCHANGED <<images, next_image_id, stages>>
     \/ /\ except(r, Error("OperationalError"))      \* the database fails
        /\ UNCHANGED <<images, next_image_id, stages>>
  /\ UNCHANGED <<users, fields, next_field_id, fs, clock, req, token, listing>>

\* the response names the file as the static mount serves it
predict_cleanup_mount_path(r) ==
  /\ pc[r] = "cleanup"
  /\ loc[r].temp_image_path \in DOMAIN temp_files
  /\ temp_files' = Drop(temp_files, loc[r].temp_image_path)
  /\ pc' = [pc EXCEPT ![r] = "done"]
  /\ resp' = [resp EXCEPT ![r] =
       [NoResp EXCEPT !.status_code = 200,
                      !.predictions = loc[r].predictions_list,
                      !.classified_image_path =
                         <<"classified_images", req[r].user_id,
                           <<"classified_", req[r].filename>> >>]]
  /\ stages' = [stages EXCEPT ![r] = Append(@, "Responded")]
  /\ loc' = [loc EXCEPT ![r] = NoLoc]
  /\ UNCHANGED <<db, dirs, artifacts, clock, req, token, listing>>

\* main.py:224-233: os.remove(temp_image_path), then the JSON response
predict_cleanup(r) ==
  /\ pc[r] = "cleanup"
  /\ \/ /\ loc[r].temp_image_path \in DOMAIN temp_files
        /\ temp_files' = Drop(temp_files, loc[r].temp_image_path)
        /\ pc' = [pc EXCEPT ![r] = "done"]
        /\ resp' = [resp EXCEPT ![r] =
             [NoResp EXCEPT !.status_code = 200,
                            !.predictions = loc[r].predictions_list,
                            !.classified_image_path = loc[r].classified_image_path]]
        /\ stages' = [stages EXCEPT ![r] = Append(@, "Responded")]
        /\ loc' = [loc EXCEPT ![r] = NoLoc]       \* the frame is gone
     \/ /\ loc[r].temp_image_path \notin DOMAIN temp_files
        /\ except(r, Error("FileNotFoundError"))
        /\ UNCHANGED <<temp_files, stages>>
     \/ /\ loc[r].temp_image_path \in DOMAIN temp_files
        /\ except(r, Error("OSError"))
        /\ UNCHANGED <<temp_files, stages>>
  /\ UNCHANGED <<db, dirs, artifacts, clock, req, token, listing>>

\* one step of request r; the request and the detector's answer are drawn
\* from the sets of `inputs`
predict(r, inputs) ==
  \/ \E content_type \in inputs.content_types, filename \in inputs.filenames,
        user_id \in inputs.user_ids, field_id \in inputs.field_ids :
       predict_validate(r, content_type, filename, user_id, field_id)
  \/ predict_write_temp(r)
  \/ \E shape \in inputs.shapes, boxes \in inputs.detections :
       predict_detect(r, shape, boxes)
  \/ predict_annotate(r)
  \/ predict_save(r)
  \/ predict_check_field(r)
  \/ predict_commit(r)
  \/ predict_cleanup(r)

\* ------------------------------------------------------------------ fields
\* every route of the routers depends on get_current_active_user: there is
\* an active account to make the call
Callable == \E id \in DOMAIN users : users[id].is_active

\* routers/fields.py:12-17
create_field(user_id) ==
  /\ Callable
  /\ user_id \in DOMAIN users                  \* solarfield.user_id (models.py:21)
  /\ next_field_id <= MaxFields
  /\ fields' = Put(fields, next_field_id, [user_id |-> user_id])
  /\ next_field_id' = next_field_id + 1
  /\ UNCHANGED <<users, images, next_image_id, fs, clock, pc, req, loc, stages, resp, token, listing>>

\* the field goes and its PanelImage rows stay as they are
delete_field_keeps_rows(field_id) ==
  /\ Callable
  /\ field_id \in DOMAIN fields
  /\ fields' = Drop(fields, field_id)
  /\ UNCHANGED <<users, images, next_field_id, next_image_id, fs, clock, pc, req,
                 loc, stages, resp, token, listing>>

\* routers/fields.py:45-52; the images relationship (models.py:25) has no
\* delete cascade, so the rows of the field keep existing with field_id NULL.
\* The flush and the commit are one step: a PanelImage row committed between
\* them makes the DELETE fail on the foreign key and nothing is deleted.
delete_field(field_id) ==
  /\ Callable
  /\ field_id \in DOMAIN fields
  /\ fields' = Drop(fields, field_id)
  /\ images' = [i \in DOMAIN images |->
                 IF images[i].field_id = field_id
                   THEN [images[i] EXCEPT !.field_id = 0]
                   ELSE images[i]]
  /\ UNCHANGED <<users, next_field_id, next_image_id, fs, clock, pc, req, loc, stages, resp, token, listing>>

\* midnight passes
tick ==
  /\ clock < MaxDay
  /\ clock' = clock + 1
  /\ UNCHANGED <<db, fs, pc, req, loc, stages, resp, token, listing>>

\* ------------------------------------------------------------------ panel images
\* a field_id the foreign key of panelimage (models.py:31) accepts: NULL or
\* the id of a SolarField row
Referable(field_id) == field_id \in DOMAIN fields \cup {0}

\* routers/panel_images.py:14-19: the row of the body is inserted; an insert
\* the foreign key refuses raises and stores nothing
create_panel_image(field_id) ==
  /\ Callable
  /\ next_image_id <= MaxImages
  /\ Referable(field_id)
  /\ images' = Put(images, next_image_id,
                   [path |-> <<"panel.png">>, field_id |-> field_id,
                    image_class |-> <<"clean">>])
  /\ next_image_id' = next_image_id + 1
  /\ UNCHANGED <<users, fields, next_field_id, fs, clock, pc, req, loc, stages,
                 resp, token, listing>>

\* routers/panel_images.py:37-49, for a body that sets field_id
update_panel_image(image_id, field_id) ==
  /\ Callable
  /\ image_id \in DOMAIN images
  /\ Referable(field_id)
  /\ images' = [images EXCEPT ![image_id].field_id = field_id]
  /\ UNCHANGED <<users, fields, next_field_id, next_image_id, fs, clock, pc, req,
                 loc, stages, resp, token, listing>>

\* routers/panel_images.py:52-60
delete_panel_image(image_id) ==
  /\ Callable
  /\ image_id \in DOMAIN images
  /\ images' = Drop(images, image_id)
  /\ UNCHANGED <<users, fields, next_field_id, next_image_id, fs, clock, pc, req,
                 loc, stages, resp, token, listing>>

\* ------------------------------------------------------------------ accounts
credentials_exception ==
  HTTPException(401, <<"Could not validate credentials">>)

\* services/auth.py:112-133: jwt.decode, then the User row of the subject;
\* .one() raises NoResultFound when there is no such row
get_current_user(t) ==
  IF ~t.valid                                   \* jwt.InvalidTokenError
    THEN [user |-> 0, e |-> credentials_exception]
  ELSE IF t.sub = ""                            \* payload.get("sub") is None
    THEN [user |-> 0, e |-> credentials_exception]
  ELSE LET rows == { id \in DOMAIN users : users[id].username = t.sub }
       IN  IF rows = {}
             THEN [user |-> 0, e |-> Error("NoResultFound")]
             ELSE [user |-> CHOOSE id \in rows : TRUE, e |-> NoException]

\* services/auth.py:136-141
get_current_active_user(t) ==
  LET current_user == get_current_user(t)
  IN  IF current_user.e # NoException THEN current_user
      ELSE IF users[current_user.user].is_active = FALSE
        THEN [user |-> 0, e |-> HTTPException(400, <<"Inactive user">>)]
      ELSE current_user

\* an exception that leaves a route or a dependency: an HTTPException is
\* answered with its status and detail, any other with a bare 500
exception_handler(e) ==
  IF e.cls = "HTTPException"
    THEN [NoResp EXCEPT !.status_code = e.status_code, !.detail = e.detail]
    ELSE [NoResp EXCEPT !.status_code = 500,
                        !.detail = <<"Internal Server Error">>]

\* main.py:98: Depends(get_current_active_user) runs before the body of
\* predict; what it raises is not inside the try of predict
predict_depends(r, t) ==
  /\ pc[r] = "depends"
  /\ token' = [token EXCEPT ![r] = t]
  /\ LET current_user == get_current_active_user(t)
     IN  IF current_user.e = NoException
           THEN /\ pc' = [pc EXCEPT ![r] = "idle"]
                /\ UNCHANGED <<loc, resp>>
           ELSE /\ pc' = [pc EXCEPT ![r] = "done"]
                /\ loc' = [loc EXCEPT ![r].e = current_user.e]
                /\ resp' = [resp EXCEPT ![r] = exception_handler(current_user.e)]
  /\ UNCHANGED <<db, fs, clock, req, stages, listing>>

\* routers/users.py:45-57, for a body that sets is_active
update_user(user_id, is_active) ==
  /\ Callable
  /\ user_id \in DOMAIN users
  /\ users' = [users EXCEPT ![user_id].is_active = is_active]
  /\ UNCHANGED <<fields, next_field_id, images, next_image_id, fs, clock, pc,
                 req, loc, stages, resp, token, listing>>

\* routers/users.py:60-68; solarfield.user_id refers to user.id
\* (models.py:21), so an account that owns a field cannot be deleted
delete_user(user_id) ==
  /\ Callable
  /\ user_id \in DOMAIN users
  /\ \A f \in DOMAIN fields : fields[f].user_id # user_id
  /\ users' = Drop(users, user_id)
  /\ UNCHANGED <<fields, next_field_id, images, next_image_id, fs, clock, pc,
                 req, loc, stages, resp, token, listing>>

\* routers/fields.py:56-87
get_classified_images(t, solar_field_id, user_id) ==
  LET current_user == get_current_active_user(t)
      field == { f \in DOMAIN fields :
                   f = solar_field_id /\ fields[f].user_id = user_id }
      found == { i \in DOMAIN images : images[i].field_id = solar_field_id }
      status_code ==
        IF current_user.e # NoException
          THEN exception_handler(current_user.e).status_code
        ELSE IF field = {} THEN 404
        ELSE IF found = {} THEN 404
        ELSE 200
  IN  /\ listing' =
           [status_code |-> status_code,
            images |-> IF status_code = 200
                         THEN { [id |-> i, field_id |-> images[i].field_id] :
                                  i \in found }
                         ELSE {},
            current_user |-> current_user.user,
            solar_field_id |-> solar_field_id,
            user_id |-> user_id,
            serial |-> 1 - listing.serial]
      /\ UNCHANGED <<db, fs, clock, pc, req, loc, stages, resp, token>>

\* NumReq concurrent requests for the first field; the detector finds
\* nothing or one "Dusty" box
ConcurrentInputs ==
  [content_types |-> { <<"image", "/", "png">>, <<"text", "/", "plain">> },
   filenames |-> Filenames,
   user_ids |-> UserIds,
   field_ids |-> {1},
   shapes |-> { [width |-> 640, height |-> 480] },
   detections |-> { <<>>, <<2>> }]

Next ==
  \/ \E r \in Reqs : predict(r, ConcurrentInputs)
  \/ \E user_id \in UserIds : create_field(user_id)
  \/ \E field_id \in FieldIds : delete_field(field_id)
  \/ tick

Spec == Init /\ [][Next]_vars

\* one request; any upload, and the detector finds up to MaxDet boxes
AllInputs ==
  [content_types |-> ContentTypes,
   filenames |-> Filenames,
   user_ids |-> UserIds,
   field_ids |-> FieldIds,
   shapes |-> Shapes,
   detections |-> Detections]

NextOne ==
  \/ predict(1, AllInputs)
  \/ \E user_id \in UserIds : create_field(user_id)
  \/ \E field_id \in FieldIds : delete_field(field_id)
  \/ tick

SpecOne == Init /\ [][NextOne]_vars

\* one request from its bearer token on, while accounts are deactivated and
\* deleted and the classified images of the fields are listed
InitAuth ==
  /\ fields = Empty
  /\ next_field_id = 1
  /\ images = Empty
  /\ next_image_id = 1
  /\ temp_files = Empty
  /\ dirs = {}
  /\ artifacts = Empty
  /\ clock = 0
  /\ pc = [r \in Reqs |-> "depends"]
  /\ req = [r \in Reqs |-> NoReq]
  /\ loc = [r \in Reqs |-> NoLoc]
  /\ stages = [r \in Reqs |-> <<>>]
  /\ resp = [r \in Reqs |-> NoResp]
  /\ users = Registered
  /\ token = [r \in Reqs |-> NoToken]
  /\ listing = NoListing

OneUpload ==
  [content_types |-> { <<"image", "/", "png">>, <<"text", "/", "plain">> },
   filenames |-> {"a.png"},
   user_ids |-> {1},
   field_ids |-> {1},
   shapes |-> { [width |-> 640, height |-> 480] },
   detections |-> { <<2>> }]

NextAuth ==
  \/ \E t \in Tokens : predict_depends(1, t)
  \/ predict(1, OneUpload)
  \/ \E user_id \in UserIds, is_active \in BOOLEAN : update_user(user_id, is_active)
  \/ \E user_id \in UserIds : delete_user(user_id)
  \/ \E user_id \in UserIds : create_field(user_id)
  \/ \E field_id \in FieldIds : delete_field(field_id)
  \/ \E t \in Tokens, solar_field_id \in FieldIds, user_id \in UserIds :
       get_classified_images(t, solar_field_id, user_id)

SpecAuth == InitAuth /\ [][NextAuth]_vars

\* one upload while rows are written through the routers of fields and
\* panel images
NextCrud ==
  \/ predict(1, OneUpload)
  \/ \E user_id \in UserIds : create_field(user_id)
  \/ \E field_id \in FieldIds : delete_field(field_id)
  \/ \E field_id \in FieldIds \cup {0} : create_panel_image(field_id)
  \/ \E image_id \in 1..(MaxImages + 1), field_id \in FieldIds \cup {0} :
       update_panel_image(image_id, field_id)
  \/ \E image_id \in 1..(MaxImages + 1) : delete_panel_image(image_id)

SpecCrud == Init /\ [][NextCrud]_vars

\* ------------------------------------------------------------------ claims
Done(r) == pc[r] = "done"
Succeeded(r) == Done(r) /\ resp[r].status_code = 200
Did(r, stage) == stage \in Range(stages[r])
IsImage(r) == startswith(req[r].content_type, <<"image", "/">>)
\* the request ended at main.py:209, the field being absent
FieldNotFound(r) ==
  /\ Done(r)
  /\ loc[r].e.cls = "HTTPException"
  /\ loc[r].e.status_code = 404

\* C1: a request whose field_id names no SolarField fails without having
\* written an artifact and without having created a PanelImage row.
C1_FieldNotFoundWritesNothing ==
  \A r \in Reqs :
    FieldNotFound(r) => ~Did(r, "Stored") /\ ~Did(r, "Recorded")

\* C2: a request whose content type does not start with "image/" is
\* answered with status 400.
C2_NotAnImageIs400 ==
  \A r \in Reqs :
    Done(r) /\ ~IsImage(r) => resp[r].status_code = 400

\* C3: an image request whose field_id names no SolarField is answered with
\* status 404 and detail "SolarField with ID {field_id} not found".
C3_FieldNotFoundIs404 ==
  \A r \in Reqs :
    FieldNotFound(r) =>
      /\ resp[r].status_code = 404
      /\ resp[r].detail = <<"SolarField with ID ", req[r].field_id, " not found">>

\* C4: a request rejected for a non-image content type changes no file and
\* no PanelImage row, and the detector is never invoked for it.
C4_RejectedUploadHasNoEffect ==
  /\ [][\A r \in Reqs :
          pc[r] = "idle" /\ pc'[r] # "idle" /\ ~IsImage(r)' =>
            /\ pc'[r] = "done"
            /\ temp_files' = temp_files
            /\ dirs' = dirs
            /\ artifacts' = artifacts
            /\ images' = images]_vars
  /\ [](\A r \in Reqs : Done(r) /\ ~IsImage(r) => stages[r] = <<>>)

\* a rejected upload, with files of another request on disk
C4_Witness ==
  \E r \in Reqs :
    /\ Done(r) /\ ~IsImage(r)
    /\ DOMAIN temp_files # {}
    /\ DOMAIN artifacts # {}

Before(s, a, b) ==
  \E i, j \in DOMAIN s : i < j /\ s[i] = a /\ s[j] = b
Times(s, a) == Cardinality({ i \in DOMAIN s : s[i] = a })
\* request r commits its row in this step
Commits(r) == ~Did(r, "Recorded") /\ Did(r, "Recorded")'

\* C5: a PanelImage row is committed only after the detection, the field
\* check and the artifact write of its request, each commit adds exactly
\* one row, and a request answered with success has committed exactly once.
C5_OneRecordAfterAllStages ==
  /\ [](\A r \in Reqs :
         Did(r, "Recorded") =>
           /\ Before(stages[r], "Detected", "Recorded")
           /\ Before(stages[r], "FieldChecked", "Recorded")
           /\ Before(stages[r], "Stored", "Recorded"))
  /\ [](\A r \in Reqs : Succeeded(r) => Times(stages[r], "Recorded") = 1)
  /\ [][\A r \in Reqs :
          Commits(r) =>
            /\ loc[r].classified_image_path \in DOMAIN artifacts
            /\ Cardinality(DOMAIN images' \ DOMAIN images) = 1
            /\ DOMAIN images \subseteq DOMAIN images']_vars
  /\ [][DOMAIN images' # DOMAIN images => \E r \in Reqs : Commits(r)]_vars

\* a request that found no box succeeded, and its row is in the table
C5_Witness ==
  \E r \in Reqs :
    /\ Succeeded(r)
    /\ resp[r].predictions = <<>>
    /\ \E i \in DOMAIN images : images[i].path = resp[r].classified_image_path

\* C6: a request has committed a PanelImage row if and only if it ends with
\* the success response.
C6_RecordIffSuccess ==
  \A r \in Reqs :
    Done(r) => (Did(r, "Recorded") <=> resp[r].status_code = 200)

\* the failures another request can cause, as opposed to a failing disk,
\* detector or database and to an absent field
OnlyInterference(r) == loc[r].e.cls \in {"None", "FileNotFoundError"}

\* C7: two requests for the same existing field both succeed, whatever the
\* interleaving and also with equal filename and user_id, and the paths of
\* their records differ.
C7_ConcurrentUploadsIndependent ==
  \A r1, r2 \in Reqs :
    /\ r1 # r2
    /\ Done(r1) /\ Done(r2)
    /\ IsImage(r1) /\ IsImage(r2)
    /\ req[r1].field_id = req[r2].field_id
    /\ OnlyInterference(r1) /\ OnlyInterference(r2)
    => /\ Succeeded(r1) /\ Succeeded(r2)
       /\ resp[r1].classified_image_path # resp[r2].classified_image_path

RECURSIVE split(_)
\* the members of a comma-joined string; the empty string has none
split(text) ==
  IF text = <<>> THEN <<>>
  ELSE IF Len(text) = 1 THEN <<text[1]>>
  ELSE <<text[1]>> \o split(SubSeq(text, 3, Len(text)))

\* the lower-cased form of each label of the vocabulary
LowerCased == ("Clean" :> "clean") @@ ("Dusty" :> "dusty") @@ ("dusty" :> "dusty")
LabelSet(labels) == { LowerCased[labels[i]] : i \in DOMAIN labels }
Labels(boxes) == [i \in DOMAIN boxes |-> Names[boxes[i]]]
Classes(predictions) == [i \in DOMAIN predictions |-> predictions[i].class]

\* C8: the image_class stored by a request is the comma-join of the set of
\* lower-cased labels of its detections, each once; with no detection the
\* request succeeds and stores an artifact and a row with empty image_class.
C8_ImageClassIsLabelSet ==
  \A r \in Reqs :
    /\ pc[r] = "cleanup" =>
         /\ loc[r].panel_image_id \in DOMAIN images
         /\ LET row == images[loc[r].panel_image_id]
                members == split(row.image_class)
                expected == LabelSet(Labels(loc[r].results))
            IN  /\ Range(members) = expected
                /\ Len(members) = Cardinality(expected)
                /\ row.image_class = join(members)
                /\ \A i \in DOMAIN members : members[i] # ","
                /\ loc[r].results = <<>> => row.image_class = <<>>
                /\ row.path \in DOMAIN artifacts
    /\ Succeeded(r) =>
         \E i \in DOMAIN images :
           /\ images[i].path = resp[r].classified_image_path
           /\ Range(split(images[i].image_class))
                = LabelSet(Classes(resp[r].predictions))
           /\ images[i].path \in DOMAIN artifacts

\* "Dusty" and "dusty" found in one image and stored as the one class "dusty"
C8_Witness ==
  /\ Succeeded(1)
  /\ Classes(resp[1].predictions) = <<"Dusty", "dusty">>
  /\ \E i \in DOMAIN images : images[i].image_class = <<"dusty">>

\* request r stores its artifact in this step
Stores(r) == ~Did(r, "Stored") /\ Did(r, "Stored")'

\* C9: save_classified_image returns
\* classified_images/{year}/{month}/{day}/{user_id}/{filename} of the date of
\* the call; the file at that path then holds the image of this call, no
\* other file is touched, and an existing directory or file is no error.
C9_StoreIsDeterministic ==
  /\ [][\A r \in Reqs :
          Stores(r) =>
            LET path == << "classified_images", now.year, now.month, now.day,
                           req[r].user_id, <<"classified_", req[r].filename>> >>
            IN  /\ loc'[r].classified_image_path = path
                /\ DOMAIN artifacts' = DOMAIN artifacts \cup {path}
                /\ artifacts'[path] = loc[r].pil_image
                /\ \A q \in DOMAIN artifacts \ {path} : artifacts'[q] = artifacts[q]
                /\ dirs \subseteq dirs']_vars
  /\ [](\A r1, r2 \in Reqs :
         /\ pc[r1] \in {"check", "commit", "cleanup"}
         /\ pc[r2] \in {"check", "commit", "cleanup"}
         /\ req[r1].user_id = req[r2].user_id
         /\ req[r1].filename = req[r2].filename
         /\ SubSeq(loc[r1].classified_image_path, 2, 4)
              = SubSeq(loc[r2].classified_image_path, 2, 4)
         => loc[r1].classified_image_path = loc[r2].classified_image_path)

\* two requests stored under one path; the file holds the image of the later
C9_Witness ==
  \E r1, r2 \in Reqs :
    /\ r1 # r2
    /\ Succeeded(r1)
    /\ pc[r2] = "check"
    /\ resp[r1].classified_image_path = loc[r2].classified_image_path
    /\ artifacts[loc[r2].classified_image_path] = loc[r2].pil_image
    /\ loc[r2].pil_image.src = r2
    /\ Cardinality(DOMAIN artifacts) = 1

\* C10: the path of a success response is the one the artifact store
\* returned for classified_{filename}, it is the path of the row the request
\* committed, and a file exists there when the response is produced.
C10_ResponsePathIsStoredPath ==
  /\ [][\A r \in Reqs :
          Stores(r) =>
            /\ loc'[r].classified_image_path = full_path(req[r].user_id,
                                                  <<"classified_", req[r].filename>>)
            /\ loc'[r].classified_image_path \in DOMAIN artifacts']_vars
  /\ [][\A r \in Reqs :
          Commits(r) =>
            /\ loc'[r].panel_image_id \in DOMAIN images' \ DOMAIN images
            /\ images'[loc'[r].panel_image_id].path = loc[r].classified_image_path
            /\ loc'[r].classified_image_path = loc[r].classified_image_path]_vars
  /\ [][\A r \in Reqs :
          ~Succeeded(r) /\ Succeeded(r)' =>
            /\ resp'[r].classified_image_path = loc[r].classified_image_path
            /\ resp'[r].classified_image_path \in DOMAIN artifacts'
            /\ \E i \in DOMAIN images' :
                 images'[i].path = resp'[r].classified_image_path]_vars

\* a success response whose path is a file and the path of a row
C10_Witness ==
  \E r \in Reqs :
    /\ Succeeded(r)
    /\ resp[r].classified_image_path \in DOMAIN artifacts
    /\ \E i \in DOMAIN images : images[i].path = resp[r].classified_image_path

\* the exception was raised by a failing call, not by a raise of the handler
Unclassified(r) == loc[r].e.cls \notin {"None", "HTTPException"}

\* C11: an exception of /predict that is no HTTPException of the handler
\* (detector, file system, database) is answered with status 500 and the
\* exception's message as detail; every request that ends has an answer.
C11_UnclassifiedIs500 ==
  \A r \in Reqs :
    /\ Done(r) /\ Unclassified(r) =>
         /\ resp[r].status_code = 500
         /\ resp[r].detail = <<loc[r].e.cls>>
         /\ ~Did(r, "Responded")
    /\ Done(r) => resp[r].status_code \in {200, 500}
    /\ resp[r].status_code = 200 => loc[r].e = NoException /\ Did(r, "Responded")

\* the detector raised and the caller got its message with status 500
C11_Witness ==
  \E r \in Reqs :
    /\ Done(r)
    /\ loc[r].e.cls = "InferenceError"
    /\ resp[r].status_code = 500
    /\ resp[r].detail = <<"InferenceError">>

PipelineOrder ==
  << "Received", "Decoded", "Detected", "Annotated", "Aggregated", "Stored",
     "FieldChecked", "Recorded", "Responded" >>
IsPrefix(s, t) == Len(s) <= Len(t) /\ s = SubSeq(t, 1, Len(s))

\* C12: the stages of a request run in pipeline order without gaps, and a
\* request that failed runs no further stage: no detection after a rejected
\* content type, no artifact after a failed detection, no row after a failed
\* artifact write or field check.
C12_StagesInOrder ==
  /\ [](\A r \in Reqs : IsPrefix(stages[r], PipelineOrder))
  /\ [](\A r \in Reqs :
         /\ Did(r, "Detected") => IsImage(r)
         /\ loc[r].e.cls = "InferenceError" => ~Did(r, "Stored")
         /\ FieldNotFound(r) => ~Did(r, "Recorded")
         /\ Done(r) /\ ~Did(r, "Stored") => ~Did(r, "Recorded")
         /\ Done(r) /\ ~Did(r, "Responded") => resp[r].status_code = 500)
  /\ [][\A r \in Reqs :
          /\ Done(r) => stages'[r] = stages[r] /\ Done(r)'
          /\ IsPrefix(stages[r], stages'[r])
          /\ temp_files' # temp_files /\ pc'[r] # pc[r] =>
               pc[r] \in {"write_temp", "cleanup"}
          /\ artifacts' # artifacts /\ pc'[r] # pc[r] =>
               pc[r] = "save" /\ Did(r, "Aggregated")
          /\ images' # images /\ pc'[r] # pc[r] =>
               pc[r] = "commit" /\ Did(r, "FieldChecked")]_vars

\* a request whose detector failed after another one ran the whole pipeline
C12_Witness ==
  \E r1, r2 \in Reqs :
    /\ stages[r1] = PipelineOrder
    /\ Done(r2)
    /\ loc[r2].e.cls = "InferenceError"
    /\ stages[r2] = <<"Received">>

\* the field of r was there at the check (main.py:206) and is gone now
DeletedSinceCheck(r) ==
  pc[r] = "commit" /\ req[r].field_id \notin DOMAIN fields

\* C14: when the field is deleted between the existence check and the
\* insert, the request inserts no PanelImage row for that field and does not
\* answer 200: it stays before the insert or ends in a failure.
C14_NoInsertForDeletedField ==
  [][\A r \in Reqs :
       DeletedSinceCheck(r) =>
         /\ pc'[r] \in {"commit", "done"}
         /\ \A i \in DOMAIN images' \ DOMAIN images :
              images'[i].field_id # req[r].field_id
         /\ pc'[r] = "done" => resp'[r].status_code = 500]_vars

C14_Witness ==
  \E r \in Reqs :
    /\ Done(r)
    /\ Did(r, "FieldChecked")
    /\ loc[r].e.cls = "IntegrityError"
    /\ req[r].field_id \notin DOMAIN fields

\* the detector has been given the pixels of r's upload
Detecting(r) == loc[r].source # NoBuffer
Longer(buffer) ==
  IF buffer.width >= buffer.height THEN buffer.width ELSE buffer.height

\* C15: an upload whose width or height exceeds 800 px reaches the detector
\* downscaled, its aspect ratio kept, so that its longer side is 800; an
\* upload within 800 px reaches the detector at its original size.
C15_DetectorInputNormalized ==
  \A r \in Reqs :
    Detecting(r) =>
      LET image == loc[r].cv2_image
          source == loc[r].source
      IN  IF Longer(image) > 800
            THEN /\ Longer(source) = 800
                 /\ source.width * image.height = source.height * image.width
            ELSE source = image

\* C16: an answer of get_classified_images carries images only when the field
\* solar_field_id exists and belongs to the authenticated caller; for a field
\* that is missing or belongs to another user the caller gets 404 and no
\* images; every image returned has field_id = solar_field_id.
C16_ListingOnlyForOwner ==
  [][listing' # listing =>
       LET answer == listing'
           owned == /\ answer.solar_field_id \in DOMAIN fields
                    /\ fields[answer.solar_field_id].user_id = answer.current_user
       IN  /\ answer.status_code = 200 => owned
           /\ answer.images # {} => answer.status_code = 200
           /\ answer.current_user # 0 /\ ~owned =>
                answer.status_code = 404 /\ answer.images = {}
           /\ \A image \in answer.images :
                image.field_id = answer.solar_field_id]_vars

\* the accounts a token's subject names
Accounts(t) == { id \in DOMAIN users : users[id].username = t.sub }

\* C18: a request enters the body of predict only with a token that was
\* validated and names an existing, active user; a request with an invalid
\* token, a token whose subject has no user row, or an inactive user is
\* answered 401 or 400, and files and database are as they were; no stage
\* runs and nothing is written for a request that was not let in.
C18_AuthGatesPipeline ==
  [][\A r \in Reqs :
       /\ pc[r] = "depends" /\ pc'[r] # "depends" =>
            LET t == token'[r]
                active == /\ t.valid
                          /\ \E id \in Accounts(t) : users[id].is_active
            IN  /\ UNCHANGED <<db, fs>>
                /\ stages'[r] = <<>>
                /\ active => pc'[r] = "idle"
                /\ ~active => /\ pc'[r] = "done"
                              /\ resp'[r].status_code \in {400, 401}
       /\ pc'[r] = "depends" =>
            /\ stages'[r] = <<>>
            /\ \A p \in DOMAIN temp_files' : temp_files'[p] # r]_vars

\* C17: every PanelImage row has a field_id that is NULL or the id of a
\* SolarField row that exists.
C17_NoOrphanedPanelImage ==
  \A i \in DOMAIN images : Referable(images[i].field_id)

\* the field of an upload and of a row made through the router was deleted
C17_Witness ==
  /\ Succeeded(1)
  /\ fields = Empty /\ next_field_id > 1
  /\ \E i, j \in DOMAIN images :
       /\ images[i].path = <<"panel.png">>
       /\ images[j].path # <<"panel.png">>
       /\ images[i].field_id = 0 /\ images[j].field_id = 0

\* C13: when a request has finished, the temporary file it wrote is gone.
C13_TempFileReleased ==
  \A r \in Reqs :
    Done(r) => \A p \in DOMAIN temp_files : temp_files[p] # r

====
